---- MODULE Spec2Model ----
(***************************************************************************)
(* RetailMind Lite: the analytics core (models/forecasting.py,             *)
(* models/risk_engine.py, models/simulator.py, models/synergy_analyzer.py) *)
(* as state machines.                                                      *)
(*                                                                         *)
(* Python floats are carried in fixed point: a real x is the integer       *)
(* x * Scale (rounded down where a quotient is not exact).  float('nan')   *)
(* and pandas NaT are the value NaN; arithmetic on NaN gives NaN and every *)
(* ordering comparison with NaN is false, as in IEEE-754.                  *)
(***************************************************************************)
EXTENDS Integers, Sequences, FiniteSets, TLC

\* ------------------------------------------------------------ numbers

\* fixed-point unit: 1.0 is Scale
Scale == 100

\* float('nan') / pandas.NaT
NaN == -99999999

IsNaN(x) == x = NaN

Add(a, b) == IF IsNaN(a) \/ IsNaN(b) THEN NaN ELSE a + b

Sub(a, b) == IF IsNaN(a) \/ IsNaN(b) THEN NaN ELSE a - b

\* a <= b on floats: false when either side is NaN
Le(a, b) == ~IsNaN(a) /\ ~IsNaN(b) /\ a <= b

\* a > b on floats: false when either side is NaN
Gt(a, b) == ~IsNaN(a) /\ ~IsNaN(b) /\ a > b

\* a < b on floats: false when either side is NaN
Lt(a, b) == ~IsNaN(a) /\ ~IsNaN(b) /\ a < b

\* Python's max(0, x): x when x > 0 compares true, otherwise the first argument 0
PyMax0(x) == IF Gt(x, 0) THEN x ELSE 0

RECURSIVE SumSeq(_)
SumSeq(s) == IF s = <<>> THEN 0 ELSE Head(s) + SumSeq(Tail(s))

RECURSIVE ISqrt(_)
\* floor of the square root of a natural number
ISqrt(n) ==
    IF n < 2 THEN n
    ELSE LET r == 2 * ISqrt(n \div 4)
         IN  IF (r + 1) * (r + 1) <= n THEN r + 1 ELSE r

\* pandas Series.tail(k)
TailN(s, k) == IF Len(s) <= k THEN s ELSE SubSeq(s, Len(s) - k + 1, Len(s))

\* pandas Series.mean() of raw integers, in fixed point; NaN for an empty series
Mean(s) == IF Len(s) = 0 THEN NaN ELSE (SumSeq(s) * Scale) \div Len(s)

\* pandas Series.std() (sample, ddof = 1) in fixed point; NaN below two points
Std(s) ==
    IF Len(s) < 2 THEN NaN
    ELSE LET m == Mean(s)
             sq == [i \in 1..Len(s) |-> (s[i] * Scale - m) * (s[i] * Scale - m)]
         IN  ISqrt(SumSeq(sq) \div (Len(s) - 1))

\* mean of a series of fixed-point values (NaN if empty or if any entry is NaN)
MeanFP(s) ==
    IF Len(s) = 0 \/ \E i \in 1..Len(s) : IsNaN(s[i]) THEN NaN
    ELSE SumSeq(s) \div Len(s)

\* ------------------------------------------------------------ state

VARIABLES
    metrics,          \* classify_product_v2: the Metrics argument
    forecast_growth,  \* classify_product_v2: the forecast_growth argument
    classification,   \* classify_product_v2: the returned dict, or None
    models,           \* DemandForecaster.models: product -> fitted model, or None
    fcall,            \* the arguments of the last forecast call, or None
    fresult,          \* what the last forecast call returned, or None
    thr,              \* concurrent forecast calls: thread -> frame (pc and locals)
    sim_call,         \* WhatIfSimulator: the last simulate_* call, or None
    sim_result,       \* WhatIfSimulator: what that call returned or raised, or None
    product_data,     \* calculate_metrics: the history it is given (by name), or None
    sales_data,       \* analyze_product_synergies: the sales frame (by name), or None
    synergy_result,   \* analyze_product_synergies: the returned dict, or None
    sweep             \* a price sweep: its fixed arguments and the results so far

clsVars == <<metrics, forecast_growth, classification>>

fcVars == <<models, fcall, fresult>>

concVars == <<thr>>

simVars == <<sim_call, sim_result>>

metVars == <<product_data>>

synVars == <<sales_data, synergy_result>>

sweepVars == <<sweep>>

vars == <<metrics, forecast_growth, classification, models, fcall, fresult,
          thr, sim_call, sim_result, product_data, sales_data, synergy_result,
          sweep>>

\* Python's None, and the value of a variable its specification does not use
None == [none |-> TRUE]

\* ------------------------------------------------------------ risk engine

\* mutant: the moderate rules are tried before the high ones
DecideCategoryModerateFirst(risk_score, opportunity_score) ==
    IF risk_score > opportunity_score
    THEN [category |-> "MODERATE RISK", color |-> "orange", priority |-> 2]
    ELSE IF opportunity_score > risk_score
    THEN [category |-> "MODERATE OPPORTUNITY", color |-> "lightgreen", priority |-> 2]
    ELSE [category |-> "NEUTRAL", color |-> "gray", priority |-> 3]

\* category decision: the if/elif chain over the two scores
DecideCategory(risk_score, opportunity_score) ==
    IF risk_score >= 60 /\ opportunity_score < 30
    THEN [category |-> "HIGH RISK", color |-> "red", priority |-> 1]
    ELSE IF opportunity_score >= 60 /\ risk_score < 30
    THEN [category |-> "HIGH OPPORTUNITY", color |-> "green", priority |-> 1]
    ELSE IF risk_score > opportunity_score
    THEN [category |-> "MODERATE RISK", color |-> "orange", priority |-> 2]
    ELSE IF opportunity_score > risk_score
    THEN [category |-> "MODERATE OPPORTUNITY", color |-> "lightgreen", priority |-> 2]
    ELSE [category |-> "NEUTRAL", color |-> "gray", priority |-> 3]

\* mutant: the risk thresholds are inclusive
RiskScoreInclusive(m) ==
      (IF m.trend_7d <= -10 * Scale THEN 30 ELSE 0)
    + (IF m.days_of_stock >= 25 * Scale THEN 25 ELSE 0)
    + (IF m.stockout_risk >= (3 * Scale) \div 10 THEN 20 ELSE 0)
    + (IF m.volatility >= (4 * Scale) \div 10 THEN 15 ELSE 0)

\* risk factors of classify_product_v2
RiskScore(m) ==
      (IF m.trend_7d < -10 * Scale THEN 30 ELSE 0)
    + (IF m.days_of_stock > 25 * Scale THEN 25 ELSE 0)
    + (IF m.stockout_risk > (3 * Scale) \div 10 THEN 20 ELSE 0)
    + (IF m.volatility > (4 * Scale) \div 10 THEN 15 ELSE 0)

\* mutant: a short days_of_stock earns nothing
OpportunityScoreNoStockFactor(m, growth) ==
      (IF m.trend_7d > 15 * Scale THEN 30 ELSE 0)
    + (IF growth > 10 * Scale THEN 20 ELSE 0)
    + (IF Lt(m.volatility, (2 * Scale) \div 10) /\ m.trend_7d > 5 * Scale THEN 15 ELSE 0)

\* mutant: low volatility earns its points whatever the trend
OpportunityScoreCalmAlone(m, growth) ==
      (IF m.trend_7d > 15 * Scale THEN 30 ELSE 0)
    + (IF m.days_of_stock < 7 * Scale THEN 25 ELSE 0)
    + (IF growth > 10 * Scale THEN 20 ELSE 0)
    + (IF Lt(m.volatility, (2 * Scale) \div 10) THEN 15 ELSE 0)

\* opportunity factors of classify_product_v2
OpportunityScore(m, growth) ==
      (IF m.trend_7d > 15 * Scale THEN 30 ELSE 0)
    + (IF m.days_of_stock < 7 * Scale THEN 25 ELSE 0)
    + (IF growth > 10 * Scale THEN 20 ELSE 0)
    + (IF Lt(m.volatility, (2 * Scale) \div 10) /\ m.trend_7d > 5 * Scale THEN 15 ELSE 0)

\* trend arrow of classify_product_v2
TrendArrow(trend) ==
    IF trend > 5 * Scale THEN "up"
    ELSE IF trend < -5 * Scale THEN "down"
    ELSE "flat"

\* days-until-stockout status of classify_product_v2
StockoutStatus(days) ==
    IF days <= 3 * Scale THEN [stockout_status |-> "IMMINENT", stockout_color |-> "red"]
    ELSE IF days <= 7 * Scale THEN [stockout_status |-> "SOON", stockout_color |-> "orange"]
    ELSE [stockout_status |-> "SAFE", stockout_color |-> "green"]

\* int(x) of a fixed-point value: truncation toward zero
IntTrunc(x) == IF x >= 0 THEN x \div Scale ELSE -((-x) \div Scale)

\* RiskOpportunityEngine._get_recommended_action: the first action of the category,
\* with the number interpolated into it (None where the text holds none)
get_recommended_action(category, m) ==
    CASE category = "HIGH RISK" ->
            [text |-> "Discount by 15-20% to clear {} excess units",
             number |-> IntTrunc(IF m.days_of_stock - 14 * Scale > 0
                                 THEN m.days_of_stock - 14 * Scale ELSE 0)]
      [] category = "HIGH OPPORTUNITY" ->
            [text |-> "Increase inventory by {}%",
             number |-> IntTrunc(IF 50 * Scale <= m.trend_7d * 2
                                 THEN 50 * Scale ELSE m.trend_7d * 2)]
      [] category = "MODERATE RISK" -> [text |-> "Monitor closely for 7 days"]
      [] category = "MODERATE OPPORTUNITY" -> [text |-> "Increase promotion frequency"]
      [] category = "NEUTRAL" -> [text |-> "Maintain current levels"]
      [] OTHER -> [text |-> "Monitor as usual"]

\* RiskOpportunityEngine.classify_product_v2(metrics, forecast_growth)
classify_product_v2(m, growth) ==
    LET risk_score == RiskScore(m)
        opportunity_score == OpportunityScore(m, growth)
        cat == DecideCategory(risk_score, opportunity_score)
        so == StockoutStatus(m.days_of_stock)
    IN  [category |-> cat.category,
         color |-> cat.color,
         priority |-> cat.priority,
         risk_score |-> risk_score,
         opportunity_score |-> opportunity_score,
         trend_arrow |-> TrendArrow(m.trend_7d),
         days_of_stock |-> m.days_of_stock,
         stockout_status |-> so.stockout_status,
         stockout_color |-> so.stockout_color,
         stockout_days |-> IntTrunc(m.days_of_stock),
         recommended_action |-> get_recommended_action(cat.category, m),
         status |-> cat.category,
         reasons |-> <<get_recommended_action(cat.category, m)>>]

\* Metrics values on and next to every threshold the classifier reads
TrendVals == {-10 * Scale - 1, -10 * Scale, 5 * Scale, 5 * Scale + 1,
              15 * Scale, 15 * Scale + 1, 30 * Scale}

DaysVals == {3 * Scale, 7 * Scale - 1, 7 * Scale, 25 * Scale, 25 * Scale + 1}

StockoutVals == {(3 * Scale) \div 10, (3 * Scale) \div 10 + 1}

VolatilityVals == {(2 * Scale) \div 10 - 1, (2 * Scale) \div 10,
                   (4 * Scale) \div 10, (4 * Scale) \div 10 + 1}

GrowthVals == {10 * Scale, 10 * Scale + 1}

MetricsInputs ==
    [trend_7d : TrendVals, days_of_stock : DaysVals,
     stockout_risk : StockoutVals, volatility : VolatilityVals]

ClsIdle == metrics = None /\ forecast_growth = None /\ classification = None

FcIdle == models = None /\ fcall = None /\ fresult = None

ConcIdle == thr = None

SimIdle == sim_call = None /\ sim_result = None

MetIdle == product_data = None

SynIdle == sales_data = None /\ synergy_result = None

SweepIdle == sweep = None

InitClassify ==
    /\ metrics \in MetricsInputs
    /\ forecast_growth \in GrowthVals
    /\ classification = None
    /\ FcIdle /\ ConcIdle /\ SimIdle /\ MetIdle /\ SynIdle /\ SweepIdle

\* the caller classifies the metrics it holds
Classify ==
    /\ classification = None
    /\ classification' = classify_product_v2(metrics, forecast_growth)
    /\ UNCHANGED <<metrics, forecast_growth>>
    /\ UNCHANGED <<fcVars, concVars, simVars, metVars, synVars, sweepVars>>

NextClassify == Classify

SpecClassify == InitClassify /\ [][NextClassify]_vars

\* ------------------------------------------------------------ metrics

\* a / b on floats, b not 0: NaN when either side is NaN
FDiv(a, b) == IF IsNaN(a) \/ IsNaN(b) THEN NaN ELSE (a * Scale) \div b

\* Python's min(1, x): x when x < 1 compares true, otherwise the first argument 1
PyMin1(x) == IF Lt(x, Scale) THEN x ELSE Scale

\* one column of a frame
Column(rows, c) == [i \in 1..Len(rows) |-> rows[i][c]]

\* mutant: the zero-baseline guard is missing, so 0 / 0 is NaN
calculate_trendUnguarded(sales, days) ==
    IF Len(sales) < days THEN 0
    ELSE LET recent == TailN(sales, days)
             older == IF Len(sales) >= days * 2
                      THEN SubSeq(sales, Len(sales) - days * 2 + 1, Len(sales) - days)
                      ELSE SubSeq(sales, 1, days)
         IN  IF Len(older) = 0 THEN 0
             ELSE IF Mean(older) = 0 THEN NaN
             ELSE ((Mean(recent) - Mean(older)) * 100 * Scale) \div Mean(older)

\* mutant: the baseline is always the first `days` points
calculate_trendFirstPoints(sales, days) ==
    IF Len(sales) < days THEN 0
    ELSE LET recent == TailN(sales, days)
             older == SubSeq(sales, 1, days)
         IN  IF Len(older) = 0 \/ Mean(older) = 0 THEN 0
             ELSE ((Mean(recent) - Mean(older)) * 100 * Scale) \div Mean(older)

\* RiskOpportunityEngine._calculate_trend(data, days), on data['sales']
calculate_trend(sales, days) ==
    IF Len(sales) < days THEN 0
    ELSE LET recent == TailN(sales, days)
             older == IF Len(sales) >= days * 2
                      THEN SubSeq(sales, Len(sales) - days * 2 + 1, Len(sales) - days)
                      ELSE SubSeq(sales, 1, days)
         IN  IF Len(older) = 0 \/ Mean(older) = 0 THEN 0
             ELSE ((Mean(recent) - Mean(older)) * 100 * Scale) \div Mean(older)

\* 0.5 - 0.2 * (d / (sales_std + 1e-6)).  The 1e-6 is below the fixed-point
\* resolution: it only matters when sales_std is 0, where 0.2 * z is 200000 * d
\* and any d of a hundredth or more is far beyond the clamp, so the magnitude of
\* d is cut to one unit there.
RawRisk(d, sales_std) ==
    IF IsNaN(sales_std) THEN NaN
    ELSE IF sales_std = 0
    THEN Scale \div 2 - 200000 * (IF d > 0 THEN 1 ELSE IF d < 0 THEN -1 ELSE 0)
    ELSE Scale \div 2 - (2 * d * Scale) \div (10 * sales_std)

\* mutant: no early return for a window that sells nothing
calculate_stockout_riskNoEarlyReturn(rows) ==
    LET sales_std == Std(Column(rows, "sales"))
        sales_mean == Mean(Column(rows, "sales"))
        inventory_mean == Mean(Column(rows, "inventory"))
    IN  PyMax0(PyMin1(RawRisk(inventory_mean - sales_mean, sales_std)))

\* RiskOpportunityEngine._calculate_stockout_risk(recent_data)
calculate_stockout_risk(rows) ==
    LET sales_std == Std(Column(rows, "sales"))
        sales_mean == Mean(Column(rows, "sales"))
        inventory_mean == Mean(Column(rows, "inventory"))
    IN  IF sales_mean = 0 THEN 0
        ELSE PyMax0(PyMin1(RawRisk(inventory_mean - sales_mean, sales_std)))

IndexError == [raised |-> "IndexError"]

\* RiskOpportunityEngine.calculate_metrics(product_data): product_data['product']
\* .iloc[0] raises IndexError on a frame without rows
calculate_metrics(rows) ==
    IF Len(rows) = 0 THEN IndexError
    ELSE LET recent == TailN(rows, 30)
             sales == Column(recent, "sales")
             price == Column(recent, "price")
         IN  [product |-> rows[1].product,
              current_avg |-> Mean(sales),
              trend_7d |-> calculate_trend(sales, 7),
              trend_30d |-> calculate_trend(sales, 30),
              volatility |-> IF Gt(Mean(sales), 0)
                             THEN FDiv(Std(sales), Mean(sales)) ELSE 0,
              days_of_stock |-> IF Gt(Mean(sales), 0)
                                THEN FDiv(Mean(Column(recent, "inventory")), Mean(sales))
                                ELSE 0,
              stockout_risk |-> calculate_stockout_risk(recent),
              price_stability |-> IF Gt(Mean(price), 0)
                                  THEN Sub(Scale, FDiv(Std(price), Mean(price)))
                                  ELSE Scale]

\* n copies of v
Rep(n, v) == [i \in 1..n |-> v]

\* units sold per day of the histories the engine is given, by name
SalesPatterns ==
    {"empty", "single", "nosale", "pair", "short", "zero5", "mid", "zerobase",
     "rise", "const100", "zero30", "zerotail", "step60", "fall"}

SalesOf(n) ==
    CASE n = "empty" -> <<>>
      [] n = "single" -> <<5>>
      [] n = "nosale" -> <<0>>
      [] n = "pair" -> <<1, 9>>
      [] n = "short" -> <<2, 4, 6>>
      [] n = "zero5" -> Rep(5, 0)
      [] n = "mid" -> Rep(7, 1) \o Rep(3, 3)
      [] n = "zerobase" -> Rep(7, 0) \o Rep(7, 3)
      [] n = "rise" -> Rep(7, 9) \o Rep(9, 3) \o Rep(7, 2) \o Rep(7, 4)
      [] n = "const100" -> Rep(30, 100)
      [] n = "zero30" -> Rep(30, 0)
      [] n = "zerotail" -> <<9>> \o Rep(30, 0)
      [] n = "step60" -> Rep(30, 1) \o Rep(30, 2)
      [] n = "fall" -> Rep(23, 9) \o Rep(7, 1)

\* inventory on a day: none, as much as the day sells, or 300 units
InventoryPatterns == {"none", "equal", "300"}

InventoryOf(n, sold) ==
    CASE n = "none" -> 0
      [] n = "equal" -> sold
      [] n = "300" -> 300

\* unit price on day i: flat 2.00, swinging between 1.00 and 9.00, or free
PricePatterns == {"flat", "swing", "free"}

PriceOf(n, i) ==
    CASE n = "flat" -> 2
      [] n = "swing" -> IF i % 2 = 1 THEN 1 ELSE 9
      [] n = "free" -> 0

MetricHistories == [sales : SalesPatterns, inventory : InventoryPatterns,
                    price : PricePatterns]

\* the frame of a named history
MetricsData(h) ==
    LET s == SalesOf(h.sales)
    IN  [i \in 1..Len(s) |->
            [product |-> "Milk", sales |-> s[i],
             inventory |-> InventoryOf(h.inventory, s[i]),
             price |-> PriceOf(h.price, i)]]

\* forecast growth handed to the classifier: the fallback's 0, or above 10%
MetricsGrowthVals == {0, 11 * Scale}

InitMetrics ==
    /\ product_data \in MetricHistories
    /\ metrics = None
    /\ forecast_growth = None
    /\ classification = None
    /\ FcIdle /\ ConcIdle /\ SimIdle /\ SynIdle /\ SweepIdle

\* metrics = self.risk_engine.calculate_metrics(product_data)
CalculateMetrics ==
    /\ metrics = None
    /\ metrics' = calculate_metrics(MetricsData(product_data))
    /\ UNCHANGED <<forecast_growth, classification, product_data>>
    /\ UNCHANGED <<fcVars, concVars, simVars, synVars, sweepVars>>

\* classification = self.risk_engine.classify_product_v2(metrics, growth_pct)
ClassifyMetrics ==
    /\ metrics # None
    /\ "raised" \notin DOMAIN metrics
    /\ classification = None
    /\ \E g \in MetricsGrowthVals :
        /\ forecast_growth' = g
        /\ classification' = classify_product_v2(metrics, g)
    /\ UNCHANGED <<metrics, product_data>>
    /\ UNCHANGED <<fcVars, concVars, simVars, synVars, sweepVars>>

NextMetrics == CalculateMetrics \/ ClassifyMetrics

SpecMetrics == InitMetrics /\ [][NextMetrics]_vars

\* ------------------------------------------------------------ forecaster

\* longest horizon a caller asks for
MaxPeriods == 2

Products == {"Milk", "Bread"}

\* a ProductHistory with daily dates 1..Len and the given units sold
MkHistory(sales) == [i \in 1..Len(sales) |-> [date |-> i, sales |-> sales[i]]]

\* 31 days: one day of 9 units and then thirty days of 3 (the trailing 30 are flat)
LongSales == [i \in 1..31 |-> IF i = 1 THEN 9 ELSE 3]

\* the histories callers pass, by name: empty, one row, all zero, spread, longer
\* than the trailing window
Histories == {"empty", "single", "zero", "spread", "long"}

\* the rows of each history (product_data)
ProductData ==
    [n \in Histories |->
        CASE n = "empty" -> MkHistory(<<>>)
          [] n = "single" -> MkHistory(<<5>>)
          [] n = "zero" -> MkHistory(<<0, 0>>)
          [] n = "spread" -> MkHistory(<<0, 4, 8>>)
          [] n = "long" -> MkHistory(LongSales)]

\* product_data['sales']
Sales(h) == [i \in 1..Len(h) |-> h[i].sales]

\* product_data['date'].max(): NaT for an empty frame
LastDate(h) ==
    IF Len(h) = 0 THEN NaN
    ELSE CHOOSE d \in {h[i].date : i \in 1..Len(h)} :
             \A i \in 1..Len(h) : h[i].date <= d

\* len(product_data), product_data['date'].max(), product_data['sales'].tail(30)
\* .mean() and .std() of each history
Frame ==
    [n \in Histories |->
        [rows |-> Len(ProductData[n]),
         last_date |-> LastDate(ProductData[n]),
         recent_avg |-> Mean(TailN(Sales(ProductData[n]), 30)),
         std_dev |-> Std(TailN(Sales(ProductData[n]), 30))]]

\* date + timedelta(days = k): NaT stays NaT
AddDays(d, k) == IF IsNaN(d) THEN NaN ELSE d + k

\* what the library does in one call: where it raises (if anywhere), the point
\* forecasts and interval half-width predict returns, and the standard-normal
\* draws behind np.random.normal
YhatVals == {2 * Scale, 6 * Scale}

WidthVals == {Scale}

NoiseVals == {-6, 1}

LibFailures == {"none", "fit", "predict"}

ZeroSeq(n) == [i \in 1..n |-> 0]

\* Prophet.fit raises on fewer than two rows, or on a numerical failure
FitRaises(h, lib) == Frame[h].rows < 2 \/ lib.fail = "fit"

\* Prophet.fit: the fitted model is a function of its training data, which it keeps
Fit(h) == [history |-> h]

\* Prophet.predict raises on a NaN regressor (the weather mean of an empty frame),
\* or on a numerical failure
PredictRaises(h, lib) == Frame[h].rows = 0 \/ lib.fail = "predict"

\* mutant: the model is stored under the product name before it is fitted
train_modelStoreFirst(mods, product_name, h, lib) ==
    [raised |-> FitRaises(h, lib),
     models |-> [mods EXCEPT ![product_name] = Fit(h)]]

\* train_model: fit, then store the model under the product name
train_model(mods, product_name, h, lib) ==
    IF FitRaises(h, lib) THEN [raised |-> TRUE, models |-> mods]
    ELSE [raised |-> FALSE, models |-> [mods EXCEPT ![product_name] = Fit(h)]]

\* model.make_future_dataframe(periods) and model.predict, last `periods` rows:
\* the dates follow the last date of the model's own training history
PredictRows(model, periods, lib) ==
    [i \in 1..periods |->
        [date |-> AddDays(Frame[model.history].last_date, i),
         forecast |-> lib.yhat[i],
         forecast_lower |-> lib.yhat[i] - lib.width,
         forecast_upper |-> lib.yhat[i] + lib.width]]

\* result['forecast'].idxmax(): the first row holding the largest forecast
IdxMax(rows) ==
    CHOOSE i \in 1..Len(rows) :
        /\ \A j \in 1..Len(rows) : rows[j].forecast <= rows[i].forecast
        /\ \A j \in 1..(i - 1) : rows[j].forecast < rows[i].forecast

\* mutant: the growth is taken relative to the forecast average
GrowthPctOfForecast(forecast_avg, recent_avg) ==
    IF Gt(recent_avg, 0) /\ forecast_avg # 0
    THEN ((forecast_avg - recent_avg) * 100 * Scale) \div forecast_avg
    ELSE 0

\* growth_pct of the primary path
GrowthPct(forecast_avg, recent_avg) ==
    IF Gt(recent_avg, 0)
    THEN ((forecast_avg - recent_avg) * 100 * Scale) \div recent_avg
    ELSE 0

\* the return of the try block
PrimaryResult(model, h, periods, lib) ==
    LET result == PredictRows(model, periods, lib)
        recent_avg == Frame[h].recent_avg
        forecast_avg == MeanFP([i \in 1..periods |-> result[i].forecast])
    IN  [forecast_df |-> result,
         recent_avg |-> recent_avg,
         forecast_avg |-> forecast_avg,
         growth_pct |-> GrowthPct(forecast_avg, recent_avg),
         peak_day |-> result[IdxMax(result)].date,
         model |-> model]

\* np.random.normal(loc, scale) for the standard-normal draw z
RandomNormal(loc, scale, z) ==
    IF IsNaN(loc) \/ IsNaN(scale) THEN NaN ELSE loc + z * scale

\* one row of the fallback frame
FallbackRow(date, v, std_dev) ==
    [date |-> date,
     forecast |-> v,
     forecast_lower |-> PyMax0(Sub(v, std_dev)),
     forecast_upper |-> Add(v, std_dev)]

\* the return of the except block
FallbackResult(h, periods, lib, e) ==
    LET last_date == Frame[h].last_date
        recent_avg == Frame[h].recent_avg
        std_dev == Frame[h].std_dev
        scale == IF IsNaN(std_dev) THEN NaN ELSE (std_dev * 2) \div 10
        forecast_values ==
            [i \in 1..periods |-> PyMax0(RandomNormal(recent_avg, scale, lib.noise[i]))]
        result ==
            [i \in 1..periods |->
                FallbackRow(AddDays(last_date, i), forecast_values[i], std_dev)]
    IN  [forecast_df |-> result,
         recent_avg |-> recent_avg,
         forecast_avg |-> recent_avg,
         growth_pct |-> 0,
         peak_day |-> result[1].date,
         model |-> None,
         error |-> e]

\* mutant: train_model is called outside the try block, so a failed fit escapes
forecastFitUncaught(mods, product_name, h, periods, lib) ==
    LET trained == IF mods[product_name] = None
                   THEN train_model(mods, product_name, h, lib)
                   ELSE [raised |-> FALSE, models |-> mods]
    IN  IF trained.raised
        THEN [models |-> trained.models, result |-> [raised |-> "ValueError"]]
        ELSE IF PredictRaises(h, lib)
        THEN [models |-> trained.models,
              result |-> FallbackResult(h, periods, lib, "predict failed")]
        ELSE [models |-> trained.models,
              result |-> PrimaryResult(trained.models[product_name], h, periods, lib)]

\* DemandForecaster.forecast(product_name, product_data, periods) on the cache
\* `mods`: the returned dict and the cache the call leaves behind
forecast(mods, product_name, h, periods, lib) ==
    LET trained == IF mods[product_name] = None
                   THEN train_model(mods, product_name, h, lib)
                   ELSE [raised |-> FALSE, models |-> mods]
    IN  IF trained.raised
        THEN [models |-> trained.models,
              result |-> FallbackResult(h, periods, lib, "fit failed")]
        ELSE IF PredictRaises(h, lib)
        THEN [models |-> trained.models,
              result |-> FallbackResult(h, periods, lib, "predict failed")]
        ELSE [models |-> trained.models,
              result |-> PrimaryResult(trained.models[product_name], h, periods, lib)]

\* does this call end in the except block?
FallsBack(mods, product_name, h, lib) ==
    \/ mods[product_name] = None /\ FitRaises(h, lib)
    \/ PredictRaises(h, lib)

\* the library behaviours one call can meet; the part a call never reads (the
\* predictions of a failed call, the noise of a successful one) is left at zero,
\* and a call that finds its product cached never fits
LibChoices(mods, product_name, h, periods) ==
    UNION {
        IF FallsBack(mods, product_name, h, [fail |-> f])
        THEN {[fail |-> f, yhat |-> ZeroSeq(periods), width |-> 0, noise |-> z] :
                z \in [1..periods -> NoiseVals]}
        ELSE {[fail |-> f, yhat |-> y, width |-> w, noise |-> ZeroSeq(periods)] :
                y \in [1..periods -> YhatVals], w \in WidthVals}
        : f \in IF mods[product_name] = None THEN LibFailures
                 ELSE LibFailures \ {"fit"}}

InitForecast ==
    /\ models = [p \in Products |-> None]
    /\ fcall = None
    /\ fresult = None
    /\ ClsIdle /\ ConcIdle /\ SimIdle /\ MetIdle /\ SynIdle /\ SweepIdle

\* one forecast call, start to return
Forecast ==
    \E product_name \in Products, h \in Histories, periods \in 1..MaxPeriods :
        \E lib \in LibChoices(models, product_name, h, periods) :
            LET out == forecast(models, product_name, h, periods, lib)
            IN  /\ models' = out.models
                /\ fcall' = [product_name |-> product_name, product_data |-> h,
                             periods |-> periods, lib |-> lib,
                             cached |-> models[product_name] # None]
                /\ fresult' = out.result
                /\ UNCHANGED <<clsVars, concVars, simVars, metVars, synVars, sweepVars>>

NextForecast == Forecast

SpecForecast == InitForecast /\ [][NextForecast]_vars

\* ------------------------------------------------------------ concurrent forecasts

\* two callers share one DemandForecaster; each makes one forecast call
Threads == {1, 2}

\* what concurrent callers pass: a history Prophet cannot fit and two it can, ending
\* on different days; one horizon
ConcHistories == {"single", "zero", "spread"}

ConcPeriods == {1}

\* the library behaviour a call has met so far (nothing yet)
NoLib(periods) ==
    [fail |-> "none", yhat |-> ZeroSeq(periods), width |-> 0, noise |-> ZeroSeq(periods)]

IdleFrame == [pc |-> "idle"]

InitConcurrent ==
    /\ models = [p \in Products |-> None]
    /\ thr = [t \in Threads |-> IdleFrame]
    /\ fcall = None /\ fresult = None
    /\ ClsIdle /\ SimIdle /\ MetIdle /\ SynIdle /\ SweepIdle

\* forecast is entered (line 45)
CCall(t) ==
    /\ thr[t].pc = "idle"
    /\ \E product_name \in Products, h \in ConcHistories, periods \in ConcPeriods :
         thr' = [thr EXCEPT ![t] =
                    [pc |-> "check", product_name |-> product_name, product_data |-> h,
                     periods |-> periods, lib |-> NoLib(periods),
                     found_cached |-> FALSE, model |-> None, e |-> "", result |-> None]]
    /\ UNCHANGED <<models, fcall, fresult, clsVars, simVars, metVars, synVars, sweepVars>>

\* `if product_name not in self.models` (line 48)
CCheck(t) ==
    /\ thr[t].pc = "check"
    /\ thr' = [thr EXCEPT ![t].pc = IF models[thr[t].product_name] = None
                                    THEN "train" ELSE "read",
                          ![t].found_cached = models[thr[t].product_name] # None]
    /\ UNCHANGED <<models, fcall, fresult, clsVars, simVars, metVars, synVars, sweepVars>>

\* self.train_model(product_name, product_data) (line 49): fit, then store
CTrain(t) ==
    /\ thr[t].pc = "train"
    /\ \E f \in {"none", "fit"} :
         LET lib == [thr[t].lib EXCEPT !.fail = f]
             trained == train_model(models, thr[t].product_name, thr[t].product_data, lib)
         IN  /\ models' = trained.models
             /\ thr' = [thr EXCEPT ![t].lib = lib,
                                   ![t].pc = IF trained.raised THEN "except" ELSE "read",
                                   ![t].e = IF trained.raised THEN "fit failed" ELSE ""]
    /\ UNCHANGED <<fcall, fresult, clsVars, simVars, metVars, synVars, sweepVars>>

\* model = self.models[product_name] (line 51)
CRead(t) ==
    /\ thr[t].pc = "read"
    /\ thr' = [thr EXCEPT ![t].model = models[thr[t].product_name],
                          ![t].pc = "predict"]
    /\ UNCHANGED <<models, fcall, fresult, clsVars, simVars, metVars, synVars, sweepVars>>

\* lines 52-85: predict with the model read, build and return the result
CPredict(t) ==
    /\ thr[t].pc = "predict"
    /\ \/ \E f \in {"none", "predict"} :
            LET lib == [thr[t].lib EXCEPT !.fail = f]
            IN  /\ PredictRaises(thr[t].product_data, lib)
                /\ thr' = [thr EXCEPT ![t].lib = lib, ![t].pc = "except",
                                      ![t].e = "predict failed"]
       \/ \E y \in [1..thr[t].periods -> YhatVals], w \in WidthVals :
            LET lib == [thr[t].lib EXCEPT !.yhat = y, !.width = w]
            IN  /\ ~PredictRaises(thr[t].product_data, lib)
                /\ thr' = [thr EXCEPT ![t].lib = lib, ![t].pc = "done",
                                      ![t].result =
                                          PrimaryResult(thr[t].model, thr[t].product_data,
                                                        thr[t].periods, lib)]
    /\ UNCHANGED <<models, fcall, fresult, clsVars, simVars, metVars, synVars, sweepVars>>

\* lines 87-120: the except block builds and returns the fallback
CExcept(t) ==
    /\ thr[t].pc = "except"
    /\ \E z \in [1..thr[t].periods -> NoiseVals] :
         LET lib == [thr[t].lib EXCEPT !.noise = z]
         IN  thr' = [thr EXCEPT ![t].lib = lib, ![t].pc = "done",
                                ![t].result =
                                    FallbackResult(thr[t].product_data, thr[t].periods,
                                                   lib, thr[t].e)]
    /\ UNCHANGED <<models, fcall, fresult, clsVars, simVars, metVars, synVars, sweepVars>>

NextConcurrent ==
    \E t \in Threads :
        CCall(t) \/ CCheck(t) \/ CTrain(t) \/ CRead(t) \/ CPredict(t) \/ CExcept(t)

SpecConcurrent == InitConcurrent /\ [][NextConcurrent]_vars

\* ------------------------------------------------------------ simulator

\* self.price_elasticity
price_elasticity ==
    [product \in {"Milk", "Bread", "Eggs", "Coffee", "Bananas", "Yogurt", "Cereal"} |->
        CASE product = "Milk" -> (8 * Scale) \div 10
          [] product = "Bread" -> (12 * Scale) \div 10
          [] product = "Eggs" -> (15 * Scale) \div 10
          [] product = "Coffee" -> (6 * Scale) \div 10
          [] product = "Bananas" -> (18 * Scale) \div 10
          [] product = "Yogurt" -> (13 * Scale) \div 10
          [] product = "Cereal" -> (11 * Scale) \div 10]

\* self.cross_elasticity, in the order the dict was written
cross_elasticity ==
    <<[prod1 |-> "Milk", prod2 |-> "Cereal", elasticity |-> (7 * Scale) \div 10],
      [prod1 |-> "Bread", prod2 |-> "Eggs", elasticity |-> (6 * Scale) \div 10],
      [prod1 |-> "Coffee", prod2 |-> "Bread", elasticity |-> (4 * Scale) \div 10],
      [prod1 |-> "Eggs", prod2 |-> "Bread", elasticity |-> (6 * Scale) \div 10]>>

\* x * y on fixed-point values
FMul(x, y) == (x * y) \div Scale

\* what a call does when Python divides by zero
ZeroDivisionError == [raised |-> "ZeroDivisionError"]

\* mutant: the change is taken relative to the new value
PctChangeOfNew(new, old) == ((new - old) * 100 * Scale) \div (IF new = 0 THEN old ELSE new)

\* (new - old) / old * 100
PctChange(new, old) == ((new - old) * 100 * Scale) \div old

RECURSIVE CrossEffectsFrom(_, _, _)
\* the loop of _calculate_cross_effects from table entry k on
CrossEffectsFrom(k, product, price_change_pct) ==
    IF k > Len(cross_elasticity) THEN <<>>
    ELSE LET entry == cross_elasticity[k]
             rest == CrossEffectsFrom(k + 1, product, price_change_pct)
         IN  IF entry.prod1 = product
             THEN <<[affected_product |-> entry.prod2,
                     demand_change_pct |-> FMul(entry.elasticity, price_change_pct) \div 2,
                     relationship |-> "complement"]>> \o rest
             ELSE rest

\* mutant: the effects are not scaled by 0.5
calculate_cross_effectsUnscaled(product, price_change_pct) ==
    CrossEffectsFrom(1, product, 2 * price_change_pct)

\* WhatIfSimulator._calculate_cross_effects
calculate_cross_effects(product, price_change_pct) ==
    CrossEffectsFrom(1, product, price_change_pct)

\* mutant: demand moves with the price instead of against it
simulate_price_changeRisingDemand(product, current_price, new_price, current_demand, forecast_demand) ==
    IF current_price = 0 THEN ZeroDivisionError
    ELSE
    LET price_change_pct == PctChange(new_price, current_price)
        elasticity == IF product \in DOMAIN price_elasticity
                      THEN price_elasticity[product] ELSE Scale
        demand_change_pct == FMul(elasticity, price_change_pct)
        new_demand == (current_demand * (100 * Scale + demand_change_pct)) \div (100 * Scale)
        current_revenue == FMul(current_demand, current_price)
        new_revenue == FMul(new_demand, new_price)
        current_profit == (current_revenue * 3) \div 10
        new_profit == (new_revenue * 3) \div 10
    IN  IF current_revenue = 0 \/ current_profit = 0 THEN ZeroDivisionError
        ELSE
        LET revenue_change_pct == PctChange(new_revenue, current_revenue)
            profit_change_pct == PctChange(new_profit, current_profit)
        IN  [scenario |-> "price_change",
             product |-> product,
             price_change_pct |-> price_change_pct,
             demand_change_pct |-> demand_change_pct,
             new_demand |-> new_demand,
             revenue_change_pct |-> revenue_change_pct,
             profit_change_pct |-> profit_change_pct,
             recommendation |-> IF profit_change_pct > 0 THEN "INCREASE"
                                ELSE IF profit_change_pct < -5 * Scale THEN "DECREASE"
                                ELSE "HOLD",
             cross_effects |-> calculate_cross_effects(product, price_change_pct)]

\* WhatIfSimulator.simulate_price_change
simulate_price_change(product, current_price, new_price, current_demand, forecast_demand) ==
    IF current_price = 0 THEN ZeroDivisionError
    ELSE
    LET price_change_pct == PctChange(new_price, current_price)
        elasticity == IF product \in DOMAIN price_elasticity
                      THEN price_elasticity[product] ELSE Scale
        demand_change_pct == -FMul(elasticity, price_change_pct)
        new_demand == (current_demand * (100 * Scale + demand_change_pct)) \div (100 * Scale)
        current_revenue == FMul(current_demand, current_price)
        new_revenue == FMul(new_demand, new_price)
        current_profit == (current_revenue * 3) \div 10
        new_profit == (new_revenue * 3) \div 10
    IN  IF current_revenue = 0 \/ current_profit = 0 THEN ZeroDivisionError
        ELSE
        LET revenue_change_pct == PctChange(new_revenue, current_revenue)
            profit_change_pct == PctChange(new_profit, current_profit)
        IN  [scenario |-> "price_change",
             product |-> product,
             price_change_pct |-> price_change_pct,
             demand_change_pct |-> demand_change_pct,
             new_demand |-> new_demand,
             revenue_change_pct |-> revenue_change_pct,
             profit_change_pct |-> profit_change_pct,
             recommendation |-> IF profit_change_pct > 0 THEN "INCREASE"
                                ELSE IF profit_change_pct < -5 * Scale THEN "DECREASE"
                                ELSE "HOLD",
             cross_effects |-> calculate_cross_effects(product, price_change_pct)]

\* mutant: the example price is 3.99
AvgPriceDearer == (399 * Scale) \div 100

\* avg_price = 2.99
AvgPrice == (299 * Scale) \div 100

\* mutant: the discount is paid on every unit sold during the promotion
simulate_promotionCostOnAllUnits(product, discount_pct, duration_days, current_demand, forecast_demand) ==
    LET lift_pct == 20 * Scale + (discount_pct * 8) \div 10
        promo_demand == (current_demand * (100 * Scale + lift_pct)) \div (100 * Scale)
        post_promo_dip == -((3 * lift_pct) \div 10)
        additional_units == (promo_demand - current_demand) * duration_days
        discount_cost == (FMul(promo_demand * duration_days, AvgPrice) * discount_pct)
                            \div (100 * Scale)
        incremental_profit == (FMul(additional_units, AvgPrice) * 3) \div 10
        net_profit == incremental_profit - discount_cost
        roi == IF discount_cost > 0 THEN (net_profit * 100 * Scale) \div discount_cost ELSE 0
    IN  [scenario |-> "promotion",
         product |-> product,
         discount_pct |-> discount_pct,
         duration_days |-> duration_days,
         lift_pct |-> lift_pct,
         post_promo_dip |-> post_promo_dip,
         additional_units |-> additional_units \div Scale,
         promotion_cost |-> discount_cost,
         net_profit |-> net_profit,
         roi_pct |-> roi,
         recommendation |-> IF roi > 30 * Scale THEN "RUN"
                            ELSE IF roi > 10 * Scale THEN "MODIFY"
                            ELSE "AVOID"]

\* WhatIfSimulator.simulate_promotion (duration_days is a whole number of days)
simulate_promotion(product, discount_pct, duration_days, current_demand, forecast_demand) ==
    LET lift_pct == 20 * Scale + (discount_pct * 8) \div 10
        promo_demand == (current_demand * (100 * Scale + lift_pct)) \div (100 * Scale)
        post_promo_dip == -((3 * lift_pct) \div 10)
        additional_units == (promo_demand - current_demand) * duration_days
        discount_cost == (FMul(additional_units, AvgPrice) * discount_pct) \div (100 * Scale)
        incremental_profit == (FMul(additional_units, AvgPrice) * 3) \div 10
        net_profit == incremental_profit - discount_cost
        roi == IF discount_cost > 0 THEN (net_profit * 100 * Scale) \div discount_cost ELSE 0
    IN  [scenario |-> "promotion",
         product |-> product,
         discount_pct |-> discount_pct,
         duration_days |-> duration_days,
         lift_pct |-> lift_pct,
         post_promo_dip |-> post_promo_dip,
         additional_units |-> additional_units \div Scale,
         promotion_cost |-> discount_cost,
         net_profit |-> net_profit,
         roi_pct |-> roi,
         recommendation |-> IF roi > 30 * Scale THEN "RUN"
                            ELSE IF roi > 10 * Scale THEN "MODIFY"
                            ELSE "AVOID"]

Abs(x) == IF x < 0 THEN -x ELSE x

Min(x, y) == IF x <= y THEN x ELSE y

\* WhatIfSimulator.simulate_inventory_change
simulate_inventory_change(product, current_stock_days, new_stock_days, current_demand) ==
    IF current_stock_days = 0 THEN ZeroDivisionError
    ELSE
    LET stock_change_pct == PctChange(new_stock_days, current_stock_days)
        stockout_risk_reduction ==
            IF stock_change_pct > 0
            THEN Min(40 * Scale, (Abs(stock_change_pct) * 8) \div 10) ELSE 0
        holding_cost_pct == Abs(stock_change_pct) \div 2
        lost_sales_risk ==
            IF stock_change_pct < 0
            THEN Min(30 * Scale, (Abs(stock_change_pct) * 6) \div 10) ELSE 0
        daily_sales_value == FMul(current_demand, AvgPrice)
        holding_cost_change == (daily_sales_value * holding_cost_pct) \div (100 * Scale)
        lost_sales_value ==
            IF stock_change_pct < 0
            THEN (daily_sales_value * lost_sales_risk) \div (100 * Scale) ELSE 0
        net_impact == -holding_cost_change - lost_sales_value
    IN  [scenario |-> "inventory_change",
         product |-> product,
         stock_change_pct |-> stock_change_pct,
         stockout_risk_change |-> IF stock_change_pct > 0 THEN -stockout_risk_reduction ELSE 0,
         holding_cost_change_pct |-> holding_cost_pct,
         lost_sales_risk_pct |-> lost_sales_risk,
         net_daily_impact |-> net_impact,
         recommendation |->
             IF stock_change_pct > 0 /\ stockout_risk_reduction > 20 * Scale THEN "INCREASE"
             ELSE IF stock_change_pct < 0 /\ holding_cost_pct > 10 * Scale THEN "DECREASE"
             ELSE "HOLD"]

\* what callers pass: table products and one the tables do not know; whole-number
\* prices, demands, discounts and stock days, zero included
SimProducts == {"Milk", "Cereal", "Bread", "Tea"}

PriceVals == {0, 2 * Scale, (21 * Scale) \div 10, 3 * Scale}

DemandVals == {0, 10 * Scale, 50 * Scale}

DiscountVals == {0, 10 * Scale, (2308 * Scale) \div 100, 25 * Scale, 50 * Scale}

DurationVals == {0, 3, 7}

StockDayVals == {0, 7 * Scale, 14 * Scale}

InitSimulator ==
    /\ sim_call = None
    /\ sim_result = None
    /\ ClsIdle /\ FcIdle /\ ConcIdle /\ MetIdle /\ SynIdle /\ SweepIdle

SimulatePriceChange ==
    \E product \in SimProducts, current_price \in PriceVals, new_price \in PriceVals,
       current_demand \in DemandVals :
        /\ sim_call' = [scenario |-> "price_change", product |-> product,
                        current_price |-> current_price, new_price |-> new_price,
                        current_demand |-> current_demand,
                        forecast_demand |-> current_demand]
        /\ sim_result' = simulate_price_change(product, current_price, new_price,
                                               current_demand, current_demand)
        /\ UNCHANGED <<clsVars, fcVars, concVars, metVars, synVars, sweepVars>>

SimulatePromotion ==
    \E product \in SimProducts, discount_pct \in DiscountVals,
       duration_days \in DurationVals, current_demand \in DemandVals :
        /\ sim_call' = [scenario |-> "promotion", product |-> product,
                        discount_pct |-> discount_pct, duration_days |-> duration_days,
                        current_demand |-> current_demand,
                        forecast_demand |-> current_demand]
        /\ sim_result' = simulate_promotion(product, discount_pct, duration_days,
                                            current_demand, current_demand)
        /\ UNCHANGED <<clsVars, fcVars, concVars, metVars, synVars, sweepVars>>

SimulateInventoryChange ==
    \E product \in SimProducts, current_stock_days \in StockDayVals,
       new_stock_days \in StockDayVals, current_demand \in DemandVals :
        /\ sim_call' = [scenario |-> "inventory_change", product |-> product,
                        current_stock_days |-> current_stock_days,
                        new_stock_days |-> new_stock_days,
                        current_demand |-> current_demand]
        /\ sim_result' = simulate_inventory_change(product, current_stock_days,
                                                   new_stock_days, current_demand)
        /\ UNCHANGED <<clsVars, fcVars, concVars, metVars, synVars, sweepVars>>

NextSimulator == SimulatePriceChange \/ SimulatePromotion \/ SimulateInventoryChange

SpecSimulator == InitSimulator /\ [][NextSimulator]_vars

\* ------------------------------------------------------------ price sweep

\* the products, current prices and demands a sweep is run for, and the new
\* prices it tries
SweepProducts == {"Milk", "Bananas", "Tea"}

SweepCurrentPrices == {2 * Scale, 3 * Scale}

SweepDemands == {10 * Scale, 50 * Scale}

SweepPrices == {Scale, (3 * Scale) \div 2, 2 * Scale, (5 * Scale) \div 2, 3 * Scale,
                4 * Scale, 6 * Scale}

InitSweep ==
    /\ sweep \in [product : SweepProducts, current_price : SweepCurrentPrices,
                  current_demand : SweepDemands, points : {<<>>}]
    /\ ClsIdle /\ FcIdle /\ ConcIdle /\ SimIdle /\ MetIdle /\ SynIdle

\* one more run of the simulation, at a new price above the ones tried so far
SweepStep ==
    \E new_price \in SweepPrices :
        /\ IF sweep.points = <<>> THEN TRUE
           ELSE new_price > sweep.points[Len(sweep.points)].new_price
        /\ sweep' = [sweep EXCEPT !.points =
                        Append(@, [new_price |-> new_price,
                                   result |-> simulate_price_change(
                                       sweep.product, sweep.current_price, new_price,
                                       sweep.current_demand,
                                       (sweep.current_demand * 11) \div 10)])]
        /\ UNCHANGED <<clsVars, fcVars, concVars, simVars, metVars, synVars>>

NextSweep == SweepStep

SpecSweep == InitSweep /\ [][NextSweep]_vars

\* ------------------------------------------------------------ synergy analyzer

\* numpy's inf (a positive float divided by 0.0)
Inf == 99999999

IsInf(x) == x = Inf \/ x = -Inf

\* abs(x) on floats
FAbs(x) == IF IsNaN(x) THEN NaN ELSE IF x < 0 THEN -x ELSE x

\* x * y on floats: NaN and the infinities propagate (inf * 0 is NaN)
FMulF(x, y) ==
    IF IsNaN(x) \/ IsNaN(y) THEN NaN
    ELSE IF IsInf(x) \/ IsInf(y)
    THEN (IF x = 0 \/ y = 0 THEN NaN
          ELSE IF (x > 0) = (y > 0) THEN Inf ELSE -Inf)
    ELSE (x * y) \div Scale

\* the product columns of the pivot table, in column order
SynProducts == <<"Bread", "Eggs", "Milk">>

\* daily sales of one product over the common fourteen dates, by name
SeriesPatterns == {"up", "down", "flat", "gaps", "wave", "sparse", "climb"}

SeriesOf(n) ==
    CASE n = "up" -> Rep(7, 1) \o Rep(7, 2)
      [] n = "down" -> Rep(7, 2) \o Rep(7, 1)
      [] n = "flat" -> Rep(14, 2)
      [] n = "gaps" -> <<0, 3, 3, 0, 3, 3, 3, 0, 3, 3, 3, 3, 3, 3>>
      [] n = "wave" -> <<1, 2, 3, 1, 2, 3, 1, 2, 3, 1, 2, 3, 1, 2>>
      [] n = "sparse" -> Rep(8, 0) \o <<3, 1, 3, 1, 3, 1>>
      [] n = "climb" -> Rep(5, 1) \o Rep(5, 2) \o Rep(4, 3)
      [] n = "relaunch" -> Rep(6, 1) \o Rep(7, 0) \o Rep(7, 2)
      [] n = "longup" -> Rep(10, 1) \o Rep(10, 2)
      [] n = "dormant" -> Rep(6, 1) \o Rep(14, 0)

\* sales_data: which series each product has, all over the same dates
\* daily sales of one product over twenty common dates, by name
LongSeriesPatterns == {"relaunch", "longup", "dormant"}

SalesFrames ==
    [{"Bread", "Eggs", "Milk"} -> SeriesPatterns]
        \cup [{"Bread", "Eggs", "Milk"} -> LongSeriesPatterns]

\* pivot_data[product]: sales per date (every product has a row on every date)
PivotColumn(data, product) == SeriesOf(data[product])

\* Series.corr (Pearson): NaN when either series is constant
Corr(x, y) ==
    LET n == Len(x)
        sx == SumSeq(x)
        sy == SumSeq(y)
        a == n * SumSeq([i \in 1..n |-> x[i] * y[i]]) - sx * sy
        b == n * SumSeq([i \in 1..n |-> x[i] * x[i]]) - sx * sx
        c == n * SumSeq([i \in 1..n |-> y[i] * y[i]]) - sy * sy
    IN  IF n < 2 \/ b = 0 \/ c = 0 THEN NaN
        ELSE LET r == ISqrt((a * a * Scale * Scale) \div (b * c))
             IN  IF a < 0 THEN -r ELSE r

\* ((sales1 > 0) & (sales2 > 0)).sum()
BothSold(x, y) == Cardinality({i \in 1..Len(x) : x[i] > 0 /\ y[i] > 0})

\* mutant: the two weights are exchanged
calculate_synergy_scoreSwapped(data, prod1, prod2) ==
    LET sales1 == PivotColumn(data, prod1)
        sales2 == PivotColumn(data, prod2)
        total_days == Len(sales1)
        co_purchase_prob == IF total_days > 0
                            THEN (BothSold(sales1, sales2) * Scale) \div total_days ELSE 0
        correlation == Corr(sales1, sales2)
    IN  Add((co_purchase_prob * 4) \div 10, FMulF(FAbs(correlation), (6 * Scale) \div 10))

\* SynergyAnalyzer._calculate_synergy_score(pivot_data, prod1, prod2)
calculate_synergy_score(data, prod1, prod2) ==
    LET sales1 == PivotColumn(data, prod1)
        sales2 == PivotColumn(data, prod2)
        total_days == Len(sales1)
        co_purchase_prob == IF total_days > 0
                            THEN (BothSold(sales1, sales2) * Scale) \div total_days ELSE 0
        correlation == Corr(sales1, sales2)
    IN  Add((co_purchase_prob * 6) \div 10, FMulF(FAbs(correlation), (4 * Scale) \div 10))

\* the pairs the double loop visits, in order
ProductPairs ==
    <<[i |-> 1, j |-> 2], [i |-> 1, j |-> 3], [i |-> 2, j |-> 3]>>

RECURSIVE StrongSynergiesFrom(_, _)
\* the double loop from pair k on: the pairs that pass both thresholds
StrongSynergiesFrom(k, data) ==
    IF k > Len(ProductPairs) THEN <<>>
    ELSE LET prod1 == SynProducts[ProductPairs[k].i]
             prod2 == SynProducts[ProductPairs[k].j]
             corr == Corr(PivotColumn(data, prod1), PivotColumn(data, prod2))
             synergy_score == calculate_synergy_score(data, prod1, prod2)
             rest == StrongSynergiesFrom(k + 1, data)
         IN  IF Gt(FAbs(corr), (6 * Scale) \div 10) /\ Gt(synergy_score, (7 * Scale) \div 10)
             THEN <<[product_pair |-> [product1 |-> prod1, product2 |-> prod2],
                     product1 |-> prod1,
                     product2 |-> prod2,
                     correlation |-> corr,
                     synergy_score |-> synergy_score,
                     relationship |-> IF corr > 0 THEN "complementary" ELSE "substitute",
                     expected_lift |-> synergy_score * 100]>> \o rest
             ELSE rest

RECURSIVE InsertByScore(_, _)
\* put e behind every entry whose score is at least its own
InsertByScore(e, sorted) ==
    IF sorted = <<>> THEN <<e>>
    ELSE IF Head(sorted).synergy_score >= e.synergy_score
    THEN <<Head(sorted)>> \o InsertByScore(e, Tail(sorted))
    ELSE <<e>> \o sorted

RECURSIVE SortByScore(_)
\* list.sort(key = synergy_score, reverse = True): stable, highest score first
SortByScore(l) ==
    IF l = <<>> THEN <<>>
    ELSE InsertByScore(l[Len(l)], SortByScore(SubSeq(l, 1, Len(l) - 1)))

\* SynergyAnalyzer._generate_synergy_recommendations: one per synergy of the top 3
generate_synergy_recommendations(synergies) ==
    IF synergies = <<>>
    THEN <<[type |-> "NO_SYNERGY", action |-> "Continue current merchandising"]>>
    ELSE [k \in 1..Min(3, Len(synergies)) |->
            IF synergies[k].relationship = "complementary"
            THEN [type |-> "BUNDLE_RECOMMENDATION",
                  product_pair |-> synergies[k].product_pair,
                  action |-> "Implement bundle pricing",
                  priority |-> "HIGH"]
            ELSE [type |-> "SEPARATE_MERCHANDISING",
                  product_pair |-> synergies[k].product_pair,
                  action |-> "Separate in store layout",
                  priority |-> "MEDIUM"]]

\* the trend of one product in _predict_ripple_effects: last 7 days against the
\* 7 before them, inf on a zero baseline, 0 for NaN; None below 14 days
RecentTrend(sales) ==
    LET recent == TailN(sales, 30)
    IN  IF Len(recent) < 14 THEN None
        ELSE LET last == Mean(TailN(recent, 7))
                 prior == Mean(SubSeq(recent, Len(recent) - 13, Len(recent) - 7))
             IN  [trend |-> IF prior = 0 THEN (IF last = 0 THEN 0 ELSE Inf)
                            ELSE ((last - prior) * 100 * Scale) \div prior]

RECURSIVE RelatedProductsFrom(_, _, _, _)
\* the loop over the synergies from entry k on, for one trigger product
RelatedProductsFrom(k, synergies, product, trend) ==
    IF k > Len(synergies) THEN <<>>
    ELSE LET synergy == synergies[k]
             rest == RelatedProductsFrom(k + 1, synergies, product, trend)
         IN  IF product \in {synergy.product1, synergy.product2}
             THEN <<[product |-> IF synergy.product1 = product
                                 THEN synergy.product2 ELSE synergy.product1,
                     predicted_change |->
                         IF synergy.relationship = "complementary"
                         THEN FMulF(FMulF(trend, synergy.correlation), Scale \div 2)
                         ELSE FMulF(FMulF(trend, synergy.correlation), -((3 * Scale) \div 10)),
                     relationship |-> IF synergy.relationship = "complementary"
                                      THEN "complements" ELSE "substitute for",
                     confidence |-> synergy.synergy_score]>> \o rest
             ELSE rest

RECURSIVE RipplePredictionsFrom(_, _, _)
\* the loop over the products from product k on
RipplePredictionsFrom(k, synergies, data) ==
    IF k > Len(SynProducts) THEN <<>>
    ELSE LET product == SynProducts[k]
             t == RecentTrend(PivotColumn(data, product))
             rest == RipplePredictionsFrom(k + 1, synergies, data)
         IN  IF t = None THEN rest
             ELSE LET related == RelatedProductsFrom(1, synergies, product, t.trend)
                  IN  IF Gt(FAbs(t.trend), 10 * Scale) /\ related # <<>>
                      THEN <<[trigger_product |-> product,
                              trend |-> t.trend,
                              related_products |-> related,
                              action |-> IF t.trend > 0 THEN "Stock up on complements"
                                         ELSE "Watch substitute demand"]>> \o rest
                      ELSE rest

\* SynergyAnalyzer._predict_ripple_effects(synergies, sales_data)
predict_ripple_effects(synergies, data) ==
    IF synergies = <<>> THEN <<>> ELSE RipplePredictionsFrom(1, synergies, data)

\* SynergyAnalyzer.analyze_product_synergies(sales_data)
analyze_product_synergies(data) ==
    LET strong_synergies == SortByScore(StrongSynergiesFrom(1, data))
    IN  [synergies |-> strong_synergies,
         recommendations |-> generate_synergy_recommendations(strong_synergies),
         ripple_effects |-> predict_ripple_effects(strong_synergies, data),
         correlation_matrix |->
             [p \in {"Bread", "Eggs", "Milk"} |->
                 [q \in {"Bread", "Eggs", "Milk"} |->
                     Corr(PivotColumn(data, p), PivotColumn(data, q))]],
         summary |->
             [total_synergies |-> Len(strong_synergies),
              top_synergy |-> IF strong_synergies # <<>>
                              THEN strong_synergies[1].product_pair ELSE None,
              avg_lift_potential |->
                  IF strong_synergies # <<>>
                  THEN MeanFP([k \in 1..Len(strong_synergies) |->
                                  strong_synergies[k].expected_lift])
                  ELSE 0]]

InitSynergy ==
    /\ sales_data \in SalesFrames
    /\ synergy_result = None
    /\ ClsIdle /\ FcIdle /\ ConcIdle /\ SimIdle /\ MetIdle /\ SweepIdle

\* analysis = analyzer.analyze_product_synergies(self.data)
AnalyzeProductSynergies ==
    /\ synergy_result = None
    /\ synergy_result' = analyze_product_synergies(sales_data)
    /\ UNCHANGED sales_data
    /\ UNCHANGED <<clsVars, fcVars, concVars, simVars, metVars, sweepVars>>

NextSynergy == AnalyzeProductSynergies

SpecSynergy == InitSynergy /\ [][NextSynergy]_vars

\* ------------------------------------------------------------ claims: classifier

\* 1 when the condition holds, else 0
Ind(b) == IF b THEN 1 ELSE 0

\* C1: the category and priority are those of the first matching rule, in the order
\* HIGH RISK (risk >= 60 and opportunity < 30), HIGH OPPORTUNITY (opportunity >= 60
\* and risk < 30), MODERATE RISK (risk > opportunity), MODERATE OPPORTUNITY
\* (opportunity > risk), NEUTRAL; (40,10), which no Metrics value scores, is decided
\* MODERATE RISK/2 by the same chain.
C1_FirstMatchingRule ==
    /\ classification # None =>
         LET r == classification.risk_score
             o == classification.opportunity_score
             got == <<classification.category, classification.priority>>
             rule1 == r >= 60 /\ o < 30
             rule2 == o >= 60 /\ r < 30
             rule3 == r > o
             rule4 == o > r
         IN  /\ rule1 => got = <<"HIGH RISK", 1>>
             /\ ~rule1 /\ rule2 => got = <<"HIGH OPPORTUNITY", 1>>
             /\ ~rule1 /\ ~rule2 /\ rule3 => got = <<"MODERATE RISK", 2>>
             /\ ~rule1 /\ ~rule2 /\ ~rule3 /\ rule4 => got = <<"MODERATE OPPORTUNITY", 2>>
             /\ ~rule1 /\ ~rule2 /\ ~rule3 /\ ~rule4 => got = <<"NEUTRAL", 3>>
             /\ <<r, o>> = <<70, 20>> => got = <<"HIGH RISK", 1>>
             /\ <<r, o>> = <<20, 70>> => got = <<"HIGH OPPORTUNITY", 1>>
             /\ <<r, o>> = <<0, 0>> => got = <<"NEUTRAL", 3>>
    /\ LET d == DecideCategory(40, 10)
       IN  d.category = "MODERATE RISK" /\ d.priority = 2

\* C1 witness: a product scored (70, 20) has been classified HIGH RISK
C1_Witness ==
    /\ classification # None
    /\ classification.risk_score = 70
    /\ classification.opportunity_score = 20
    /\ classification.category = "HIGH RISK"

\* C2: the two scores are the sums of the weights of the factors whose strict
\* comparison holds; a value exactly on its threshold adds nothing.
C2_ScoreFormula ==
    classification # None =>
        /\ classification.risk_score =
                30 * Ind(metrics.trend_7d < -10 * Scale)
              + 25 * Ind(metrics.days_of_stock > 25 * Scale)
              + 20 * Ind(10 * metrics.stockout_risk > 3 * Scale)
              + 15 * Ind(10 * metrics.volatility > 4 * Scale)
        /\ classification.opportunity_score =
                30 * Ind(metrics.trend_7d > 15 * Scale)
              + 25 * Ind(metrics.days_of_stock < 7 * Scale)
              + 20 * Ind(forecast_growth > 10 * Scale)
              + 15 * Ind(10 * metrics.volatility < 2 * Scale /\ metrics.trend_7d > 5 * Scale)

\* C2 witness: every risk input sits exactly on its threshold and the risk score is 0
C2_Witness ==
    /\ classification # None
    /\ metrics.trend_7d = -10 * Scale
    /\ metrics.days_of_stock = 25 * Scale
    /\ 10 * metrics.stockout_risk = 3 * Scale
    /\ 10 * metrics.volatility = 4 * Scale
    /\ classification.risk_score = 0

\* ------------------------------------------------------------ claims: forecaster

\* the last forecast call met a failure in model fitting or in prediction
CallFailed ==
    \/ ~fcall.cached /\ FitRaises(fcall.product_data, fcall.lib)
    \/ PredictRaises(fcall.product_data, fcall.lib)

\* the keys of a ForecastResult
ResultKeys == {"forecast_df", "recent_avg", "forecast_avg", "growth_pct", "peak_day"}

\* float equality: NaN equals nothing
FEq(a, b) == ~IsNaN(a) /\ ~IsNaN(b) /\ a = b

C4_DatesFollowPassedHistory ==
    (fresult # None /\ Frame[fcall.product_data].rows > 0) =>
        /\ Len(fresult.forecast_df) = fcall.periods
        /\ \A i \in 1..Len(fresult.forecast_df) :
               fresult.forecast_df[i].date = Frame[fcall.product_data].last_date + i

\* the fields of a ForecastResult (the model handle left out)
ForecastFields(r) == [k \in ResultKeys \cup (DOMAIN r \cap {"error"}) |-> r[k]]

\* the same call on a forecaster that retrains at every call
Retrained ==
    forecast([p \in Products |-> None], fcall.product_name, fcall.product_data,
             fcall.periods, fcall.lib).result

\* C5: the caching forecaster returns what a forecaster that retrains on the passed
\* history at every call returns.
C5_CacheIsTransparent ==
    fresult # None => ForecastFields(fresult) = ForecastFields(Retrained)

\* C7: in every forecast returned for a non-empty history, on either path, each day
\* has lower <= forecast <= upper.
C7_BoundsOrdered ==
    (fresult # None /\ Frame[fcall.product_data].rows > 0) =>
        \A i \in 1..Len(fresult.forecast_df) :
            LET row == fresult.forecast_df[i]
            IN  Le(row.forecast_lower, row.forecast) /\ Le(row.forecast, row.forecast_upper)

\* C8: a fallback on empty trailing data returns recent_avg 0 and every forecast
\* value and bound 0.
C8_EmptyFallbackIsZero ==
    (fresult # None /\ "error" \in DOMAIN fresult
        /\ Frame[fcall.product_data].rows = 0) =>
        /\ FEq(fresult.recent_avg, 0)
        /\ \A i \in 1..Len(fresult.forecast_df) :
               LET row == fresult.forecast_df[i]
               IN  /\ FEq(row.forecast, 0)
                   /\ FEq(row.forecast_lower, 0)
                   /\ FEq(row.forecast_upper, 0)

\* C9: growth_pct is (forecast_avg - recent_avg) / recent_avg * 100 on the primary
\* path when recent_avg > 0 and 0 when recent_avg is 0; on the fallback path it is
\* 0 and forecast_avg equals recent_avg.
C9_GrowthPct ==
    (fresult # None /\ Frame[fcall.product_data].rows > 0) =>
        LET ra == fresult.recent_avg
            fa == fresult.forecast_avg
        IN  IF "error" \in DOMAIN fresult
            THEN fresult.growth_pct = 0 /\ FEq(fa, ra)
            ELSE /\ ra > 0 => fresult.growth_pct * ra <= (fa - ra) * 100 * Scale
                           /\ (fa - ra) * 100 * Scale < (fresult.growth_pct + 1) * ra
                 /\ ra = 0 => fresult.growth_pct = 0

\* C9 witness: a primary result whose forecast average lies above a positive
\* recent average, with positive growth
C9_Witness ==
    /\ fresult # None
    /\ "error" \notin DOMAIN fresult
    /\ fresult.recent_avg > 0
    /\ fresult.forecast_avg > fresult.recent_avg
    /\ fresult.growth_pct > 0

\* ------------------------------------------------------------ claims: concurrency

\* what the call of thread t returns when it runs alone on the fresh forecaster,
\* with the library behaving as it did for t
Alone(t) ==
    forecast([p \in Products |-> None], thr[t].product_name, thr[t].product_data,
             thr[t].periods, thr[t].lib)

\* C6: concurrent calls for different products leave each other's cache entry alone,
\* and a call that found its product uncached, whatever the other call does
\* meanwhile, returns what it returns when run alone and, if its fit succeeded,
\* leaves one model cached for its product.
C6_ConcurrentAsAlone ==
    \A t \in Threads :
        (thr[t].pc = "done" /\ ~thr[t].found_cached) =>
            /\ ForecastFields(thr[t].result) = ForecastFields(Alone(t).result)
            /\ Alone(t).models[thr[t].product_name] # None
                   => models[thr[t].product_name] # None
            /\ \A u \in Threads \ {t} :
                   (thr[u].pc = "done" /\ thr[u].product_name # thr[t].product_name) =>
                       models[thr[t].product_name] = Alone(t).models[thr[t].product_name]

\* ------------------------------------------------------------ claims: simulator

\* C10: no simulate_* call raises for non-negative inputs; with a zero current
\* price or demand (price change), zero current stock days (inventory change) or a
\* zero discount or demand (promotion) the affected percentage is returned as 0.
C10_NoSimulationRaises ==
    sim_result # None =>
        /\ "raised" \notin DOMAIN sim_result
        /\ (sim_call.scenario = "price_change" /\ sim_call.current_price = 0) =>
               sim_result.price_change_pct = 0
        /\ (sim_call.scenario = "price_change"
                /\ (sim_call.current_price = 0 \/ sim_call.current_demand = 0)) =>
               sim_result.revenue_change_pct = 0 /\ sim_result.profit_change_pct = 0
        /\ (sim_call.scenario = "inventory_change" /\ sim_call.current_stock_days = 0) =>
               sim_result.stock_change_pct = 0
        /\ (sim_call.scenario = "promotion"
                /\ (sim_call.discount_pct = 0 \/ sim_call.current_demand = 0)) =>
               sim_result.roi_pct = 0


\* ------------------------------------------------------------ claims: metrics

\* calculate_metrics has returned or raised
MetricsDone == metrics # None

MetricsReturned == metrics # None /\ "raised" \notin DOMAIN metrics

\* the trailing window of the history calculate_metrics was given
Window == TailN(MetricsData(product_data), 30)

WindowSales == Column(Window, "sales")

MetricFields ==
    {"current_avg", "trend_7d", "trend_30d", "volatility", "days_of_stock",
     "stockout_risk", "price_stability"}

\* C11: calculate_metrics never raises, whatever the history (an empty one and a
\* one-point one included), and reports as 0 every statistic that is undefined
\* for the window: no field is NaN, and the volatility of a window of fewer than
\* two points (whose standard deviation is undefined) is 0.
C11_MetricsNeverFail ==
    MetricsDone =>
        /\ "raised" \notin DOMAIN metrics
        /\ \A f \in MetricFields : ~IsNaN(metrics[f])
        /\ (Len(Window) < 2 => metrics.volatility = 0)

\* C12: for a history whose trailing 30-point window sold nothing on any day,
\* whatever its inventory and prices, calculate_metrics returns, with trend_7d,
\* trend_30d, volatility and days_of_stock all 0 and stockout_risk within [0, 1].
C12_ZeroSalesWindow ==
    (MetricsDone /\ Len(Window) > 0 /\ \A i \in 1..Len(Window) : WindowSales[i] = 0) =>
        /\ "raised" \notin DOMAIN metrics
        /\ metrics.trend_7d = 0
        /\ metrics.trend_30d = 0
        /\ metrics.volatility = 0
        /\ metrics.days_of_stock = 0
        /\ Le(0, metrics.stockout_risk) /\ Le(metrics.stockout_risk, Scale)

\* a full window without sales behind a day with sales, over a stocked shelf
C12_Witness ==
    /\ MetricsReturned
    /\ product_data.sales = "zerotail"
    /\ product_data.inventory = "300"
    /\ product_data.price = "swing"


\* mean(inventory) - mean(sales) over the window
WindowGap == Mean(Column(Window, "inventory")) - Mean(WindowSales)

\* r is clamp(0.5 - 0.2 * z, 0, 1) for z = d / (sd + 1e-6), to within one
\* fixed-point unit; sd is a defined standard deviation
IsClampedRisk(r, d, sd) ==
    IF sd = 0
    THEN r = (IF d > 0 THEN 0 ELSE IF d < 0 THEN Scale ELSE Scale \div 2)
    ELSE LET den == 10 * sd
             num == (5 * sd - 2 * d) * Scale
             clamped == IF num < 0 THEN 0 ELSE IF num > Scale * den THEN Scale * den ELSE num
         IN  r * den - clamped <= den /\ clamped - r * den <= den

PercentChangeOfMeans(last, base) ==
    IF Mean(base) = 0 THEN 0
    ELSE ((Mean(last) - Mean(base)) * 100 * Scale) \div Mean(base)

\* C14: trend_7d is the percent change of mean units_sold over the last 7 points
\* of the window against the 7 before them; over a window of fewer than 14
\* points it is that of the last N against the first N points (N = 7, or all the
\* points when there are fewer); it is 0 when the baseline mean is 0.
C14_Trend7d ==
    MetricsReturned =>
        LET n == Len(WindowSales)
            N == IF n < 7 THEN n ELSE 7
            last == SubSeq(WindowSales, n - N + 1, n)
            base == IF n >= 14 THEN SubSeq(WindowSales, n - 13, n - 7)
                    ELSE SubSeq(WindowSales, 1, N)
        IN  metrics.trend_7d = PercentChangeOfMeans(last, base)

\* a ten-point window whose last 7 points outsell its first 7
C14_Witness ==
    /\ MetricsReturned
    /\ product_data.sales = "mid"
    /\ metrics.trend_7d > 0

\* C15: over a history of 60 points or more, trend_30d is the percent change of
\* mean units_sold over the last 30 points against the 30 points before them in
\* the full history (0 on a zero baseline): 100 when the last 30 days sell twice
\* as much as the 30 before.
C15_Trend30d ==
    LET sales == Column(MetricsData(product_data), "sales")
        n == Len(sales)
    IN  (MetricsReturned /\ n >= 60) =>
            metrics.trend_30d =
                PercentChangeOfMeans(SubSeq(sales, n - 29, n), SubSeq(sales, n - 59, n - 30))

\* C16: for a history with strictly positive unit prices, price_stability is
\* 1 - stddev(price) / mean(price) over the trailing window and lies in [0, 1]
\* (stated over windows of two points or more, where the deviation is defined).
C16_PriceStability ==
    LET price == Column(Window, "price")
    IN  (MetricsReturned /\ Len(price) >= 2 /\ \A i \in 1..Len(price) : price[i] > 0) =>
            /\ metrics.price_stability = Sub(Scale, FDiv(Std(price), Mean(price)))
            /\ Le(0, metrics.price_stability)
            /\ Le(metrics.price_stability, Scale)


\* thirty days of 100 units sold, 300 on the shelf and a flat price of 2.00, then
\* classified with the fallback forecast's growth of 0
SteadyProductClassified ==
    /\ MetricsReturned
    /\ product_data = [sales |-> "const100", inventory |-> "300", price |-> "flat"]
    /\ classification # None
    /\ forecast_growth = 0

\* C17 as stated: for that history calculate_metrics gives trend_7d 0,
\* volatility 0 and days_of_stock 3, and the classification of those metrics
\* with growth 0 is MODERATE RISK or NEUTRAL.
C17_SteadyProduct ==
    SteadyProductClassified =>
        /\ metrics.trend_7d = 0
        /\ metrics.volatility = 0
        /\ metrics.days_of_stock = 3 * Scale
        /\ classification.category \in {"MODERATE RISK", "NEUTRAL"}

\* C17 amended: the metrics are as stated, and the classification is MODERATE
\* OPPORTUNITY: risk_score 0 and opportunity_score 25 (days_of_stock below 7).
C17_SteadyProductAmended ==
    SteadyProductClassified =>
        /\ metrics.trend_7d = 0
        /\ metrics.volatility = 0
        /\ metrics.days_of_stock = 3 * Scale
        /\ classification.risk_score = 0
        /\ classification.opportunity_score = 25
        /\ classification.category = "MODERATE OPPORTUNITY"

C17_Witness == SteadyProductClassified /\ classification.priority = 2


\* ------------------------------------------------------------ claims: synergy analyzer

\* analyze_product_synergies has returned
Analyzed == synergy_result # None

\* the unordered pairs of distinct products, as sets
UnorderedPairs == {{p, q} : p, q \in {"Bread", "Eggs", "Milk"}} \ {{p} : p \in {"Bread", "Eggs", "Milk"}}

\* the entries of 'synergies' for the unordered pair pq
EntriesOf(pq) ==
    {k \in 1..Len(synergy_result.synergies) :
        {synergy_result.synergies[k].product1, synergy_result.synergies[k].product2} = pq}

\* the correlation of the two series of the unordered pair pq
PairCorrelation(pq) ==
    LET p == CHOOSE x \in pq : TRUE
        q == CHOOSE x \in pq : x # p
    IN  Corr(SeriesOf(sales_data[p]), SeriesOf(sales_data[q]))

\* 0.6 * co_occurrence_rate + 0.4 * |correlation| of the unordered pair pq, the
\* rate being the fraction of dates on which both products sell
PairScore(pq) ==
    LET p == CHOOSE x \in pq : TRUE
        q == CHOOSE x \in pq : x # p
        dates == 1..Len(SeriesOf(sales_data[p]))
        both == {d \in dates : SeriesOf(sales_data[p])[d] # 0 /\ SeriesOf(sales_data[q])[d] # 0}
        rate == (Cardinality(both) * Scale) \div Cardinality(dates)
    IN  Add((6 * rate) \div 10, FMulF(FAbs(PairCorrelation(pq)), (4 * Scale) \div 10))

\* 'synergies' holds exactly the pairs over both thresholds, each once, with the
\* stated score, relationship and lift
SynergiesAsStated ==
    /\ \A pq \in UnorderedPairs :
          LET strong == Gt(FAbs(PairCorrelation(pq)), (6 * Scale) \div 10)
                        /\ Gt(PairScore(pq), (7 * Scale) \div 10)
          IN  Cardinality(EntriesOf(pq)) = (IF strong THEN 1 ELSE 0)
    /\ \A k \in 1..Len(synergy_result.synergies) :
          LET e == synergy_result.synergies[k]
              pq == {e.product1, e.product2}
          IN  /\ pq \in UnorderedPairs
              /\ e.correlation = PairCorrelation(pq)
              /\ e.synergy_score = PairScore(pq)
              /\ e.relationship = (IF e.correlation > 0 THEN "complementary" ELSE "substitute")
              /\ e.expected_lift = e.synergy_score * 100

\* the pair pq appears with synergy_score 1.0, complementary, expected_lift 100
AppearsAsPerfect(pq) ==
    \E k \in EntriesOf(pq) :
        /\ synergy_result.synergies[k].synergy_score = Scale
        /\ synergy_result.synergies[k].relationship = "complementary"
        /\ synergy_result.synergies[k].expected_lift = 100 * Scale

\* the two products of pq have the same series, and sell on every day
IdenticalEveryDay(pq) ==
    \E n \in SeriesPatterns \cup LongSeriesPatterns :
        /\ \A p \in pq : sales_data[p] = n
        /\ \A d \in 1..Len(SeriesOf(n)) : SeriesOf(n)[d] > 0

\* a series that is the same on every day
Constant(n) == \A d \in 1..Len(SeriesOf(n)) : SeriesOf(n)[d] = SeriesOf(n)[1]

\* C18 as stated: 'synergies' holds exactly the unordered pairs with
\* |correlation| > 0.6 and synergy_score > 0.7, each once, with synergy_score =
\* 0.6 * co_occurrence_rate + 0.4 * |correlation|, complementary for a positive
\* correlation and substitute otherwise, expected_lift = synergy_score * 100;
\* and any two identical series that sell on every day appear with synergy_score
\* 1.0, complementary, expected_lift 100.
C18_Synergies ==
    Analyzed =>
        /\ SynergiesAsStated
        /\ \A pq \in UnorderedPairs : IdenticalEveryDay(pq) => AppearsAsPerfect(pq)

\* C18 amended: as stated, the last part for two identical series that sell on
\* every day and are not constant (the correlation of a constant series is
\* undefined, and such a pair is left out).
C18_SynergiesAmended ==
    Analyzed =>
        /\ SynergiesAsStated
        /\ \A pq \in UnorderedPairs :
              (IdenticalEveryDay(pq) /\ \A p \in pq : ~Constant(sales_data[p]))
                  => AppearsAsPerfect(pq)
        /\ \A pq \in UnorderedPairs :
              (\A p \in pq : Constant(sales_data[p])) => EntriesOf(pq) = {}

\* two identical rising series next to a third that rises in smaller steps: all
\* three pairs are kept, the identical one as perfect and the others below 1.0
C18_Witness ==
    /\ Analyzed
    /\ sales_data = [Bread |-> "up", Eggs |-> "up", Milk |-> "climb"]
    /\ Len(synergy_result.synergies) = 3
    /\ AppearsAsPerfect({"Bread", "Eggs"})
    /\ synergy_result.synergies[3].synergy_score < Scale


\* ------------------------------------------------------------ claims: price change

\* the last call was simulate_price_change with a positive price and demand
PriceChangeCalled ==
    /\ sim_call # None
    /\ sim_call.scenario = "price_change"
    /\ sim_call.current_price > 0
    /\ sim_call.current_demand > 0

\* the elasticity of the per-product table, 1.0 for a product it does not hold
TableElasticity(product) ==
    CASE product = "Milk" -> (8 * Scale) \div 10
      [] product = "Bread" -> (12 * Scale) \div 10
      [] product = "Eggs" -> (15 * Scale) \div 10
      [] product = "Coffee" -> (6 * Scale) \div 10
      [] product = "Bananas" -> (18 * Scale) \div 10
      [] product = "Yogurt" -> (13 * Scale) \div 10
      [] product = "Cereal" -> (11 * Scale) \div 10
      [] OTHER -> Scale

\* 30% of demand * price
Profit(demand, price) == (((demand * price) \div Scale) * 3) \div 10

\* C19: with current_price > 0 and current_demand > 0, simulate_price_change
\* returns price_change_pct = (new - current) / current * 100, demand_change_pct
\* = -elasticity * price_change_pct with the elasticity of the per-product table
\* (1.0 for an unknown product), profit_change_pct as the percent change of a
\* profit that is 30% of demand * price, and recommendation INCREASE if
\* profit_change_pct > 0, DECREASE if it is below -5, HOLD otherwise.
C19_PriceChange ==
    PriceChangeCalled =>
        /\ "raised" \notin DOMAIN sim_result
        /\ sim_result.price_change_pct =
              ((sim_call.new_price - sim_call.current_price) * 100 * Scale)
                  \div sim_call.current_price
        /\ sim_result.demand_change_pct =
              -((TableElasticity(sim_call.product) * sim_result.price_change_pct) \div Scale)
        /\ LET new_profit == Profit(sim_result.new_demand, sim_call.new_price)
               current_profit == Profit(sim_call.current_demand, sim_call.current_price)
           IN  sim_result.profit_change_pct =
                   ((new_profit - current_profit) * 100 * Scale) \div current_profit
        /\ sim_result.recommendation =
              (IF sim_result.profit_change_pct > 0 THEN "INCREASE"
               ELSE IF sim_result.profit_change_pct < -5 * Scale THEN "DECREASE"
               ELSE "HOLD")

\* a small rise of the price of an inelastic product: profit goes up
C19_WitnessIncrease ==
    /\ PriceChangeCalled
    /\ sim_call.product = "Milk"
    /\ sim_call.new_price > sim_call.current_price
    /\ sim_result.recommendation = "INCREASE"

\* the results of a sweep, in the order of its prices
SweepResults == [k \in 1..Len(sweep.points) |-> sweep.points[k].result]

\* C20: for a fixed product, current_price and current_demand (all positive, the
\* elasticity too), over a sweep of increasing new_price demand_change_pct
\* strictly decreases and revenue_change_pct never rises again after it has
\* started to fall.
C20_SweepUnimodal ==
    sweep # None =>
        /\ \A k \in 1..Len(SweepResults) : "raised" \notin DOMAIN SweepResults[k]
        /\ \A i, j \in 1..Len(SweepResults) :
              i < j => SweepResults[i].demand_change_pct > SweepResults[j].demand_change_pct
        /\ \A i, j, k \in 1..Len(SweepResults) :
              (i < j /\ j < k) =>
                  ~(/\ SweepResults[i].revenue_change_pct > SweepResults[j].revenue_change_pct
                    /\ SweepResults[j].revenue_change_pct < SweepResults[k].revenue_change_pct)

\* a sweep across the peak: revenue rises, then falls
C20_Witness ==
    /\ sweep # None
    /\ Len(SweepResults) >= 3
    /\ \E i, j, k \in 1..Len(SweepResults) :
          /\ i < j /\ j < k
          /\ SweepResults[i].revenue_change_pct < SweepResults[j].revenue_change_pct
          /\ SweepResults[j].revenue_change_pct > SweepResults[k].revenue_change_pct


\* ------------------------------------------------------------ claims: promotion

\* the last call was simulate_promotion
PromotionCalled == sim_call # None /\ sim_call.scenario = "promotion"

\* C21: for every discount_pct, duration_days and current_demand of 0 or more,
\* simulate_promotion returns lift_pct = 20 + 0.8 * discount_pct, promotion_cost
\* = additional_units * 2.99 * discount_pct / 100 with additional_units =
\* current_demand * lift_pct / 100 * duration_days, net_profit =
\* additional_units * 2.99 * 0.3 - promotion_cost, roi_pct = net_profit /
\* promotion_cost * 100 (0 when the cost is 0), and recommendation RUN if
\* roi_pct > 30, MODIFY if roi_pct > 10, AVOID otherwise.
C21_Promotion ==
    PromotionCalled =>
        LET lift_pct == 20 * Scale + (8 * sim_call.discount_pct) \div 10
            additional_units ==
                ((sim_call.current_demand * lift_pct) \div (100 * Scale))
                    * sim_call.duration_days
            sales_value == (additional_units * 299) \div 100
            promotion_cost == (sales_value * sim_call.discount_pct) \div (100 * Scale)
            net_profit == (sales_value * 3) \div 10 - promotion_cost
        IN  /\ sim_result.lift_pct = lift_pct
            /\ sim_result.promotion_cost = promotion_cost
            /\ sim_result.net_profit = net_profit
            /\ sim_result.roi_pct =
                  (IF promotion_cost = 0 THEN 0
                   ELSE (net_profit * 100 * Scale) \div promotion_cost)
            /\ sim_result.recommendation =
                  (IF sim_result.roi_pct > 30 * Scale THEN "RUN"
                   ELSE IF sim_result.roi_pct > 10 * Scale THEN "MODIFY"
                   ELSE "AVOID")

\* a week at a quarter off: the return on the discount is between 10 and 30
C21_Witness ==
    /\ PromotionCalled
    /\ sim_call.discount_pct = 25 * Scale
    /\ sim_call.duration_days = 7
    /\ sim_call.current_demand > 0
    /\ sim_result.promotion_cost > 0
    /\ sim_result.recommendation = "MODIFY"


\* ------------------------------------------------------------ claims: fallback bounds

\* C22: in every fallback result (for a history with a defined trailing standard
\* deviation) the bounds are the same on every day: the trailing mean less the
\* trailing standard deviation, floored at zero, and the trailing mean plus the
\* trailing standard deviation, whatever noise the day's forecast carries.
C22_FallbackBoundsFixed ==
    (fresult # None /\ "error" \in DOMAIN fresult
        /\ Frame[fcall.product_data].rows >= 2) =>
        \A i \in 1..Len(fresult.forecast_df) :
            LET row == fresult.forecast_df[i]
                mean == Frame[fcall.product_data].recent_avg
                sd == Frame[fcall.product_data].std_dev
            IN  /\ row.forecast_lower = (IF mean - sd > 0 THEN mean - sd ELSE 0)
                /\ row.forecast_upper = mean + sd


\* ------------------------------------------------------------ claims: ripple effects

\* the sign of a float: 1, -1 or 0 (NaN has none)
Sign(x) == IF IsNaN(x) THEN NaN ELSE IF x > 0 THEN 1 ELSE IF x < 0 THEN -1 ELSE 0

\* C23: in a ripple prediction the projected change on the partner of a
\* substitute pair has the opposite sign of the trigger product's trend, and the
\* projected change on the partner of a complementary pair has the sign of the
\* trend.
C23_RippleSigns ==
    Analyzed =>
        \A k \in 1..Len(synergy_result.ripple_effects) :
            LET entry == synergy_result.ripple_effects[k]
            IN  \A j \in 1..Len(entry.related_products) :
                    LET related == entry.related_products[j]
                    IN  IF related.relationship = "substitute for"
                        THEN Sign(related.predicted_change) = -Sign(entry.trend)
                        ELSE Sign(related.predicted_change) = Sign(entry.trend)

\* the recent trend of product p as the claim takes it: last 7 against prior 7
\* points of the trailing 30, 0 when the prior-7 mean is 0
TrendOrZero(p) ==
    LET recent == TailN(SeriesOf(sales_data[p]), 30)
        last == Mean(TailN(recent, 7))
        prior == Mean(SubSeq(recent, Len(recent) - 13, Len(recent) - 7))
    IN  IF prior = 0 THEN 0 ELSE ((last - prior) * 100 * Scale) \div prior

\* the retained synergy pairs that product p belongs to
RetainedPairsOf(p) ==
    {k \in 1..Len(synergy_result.synergies) :
        p \in {synergy_result.synergies[k].product1, synergy_result.synergies[k].product2}}

\* the entries of ripple_effects triggered by product p
RippleEntriesOf(p) ==
    {k \in 1..Len(synergy_result.ripple_effects) :
        synergy_result.ripple_effects[k].trigger_product = p}

\* C24: ripple_effects has an entry triggered by p exactly when p's recent trend
\* (0 when the prior-7 mean is 0) is above 10 in magnitude and p is in a retained
\* synergy pair; the entry lists one projected effect per retained pair holding
\* p, on the other product of the pair.
C24_RippleEntries ==
    Analyzed =>
        \A p \in {"Bread", "Eggs", "Milk"} :
            LET due == (TrendOrZero(p) > 10 * Scale \/ TrendOrZero(p) < -10 * Scale)
                       /\ RetainedPairsOf(p) # {}
            IN  /\ Cardinality(RippleEntriesOf(p)) = (IF due THEN 1 ELSE 0)
                /\ \A k \in RippleEntriesOf(p) :
                      LET related == synergy_result.ripple_effects[k].related_products
                      IN  /\ Len(related) = Cardinality(RetainedPairsOf(p))
                          /\ \A i \in RetainedPairsOf(p) :
                                \E j \in 1..Len(related) :
                                    related[j].product \in
                                        {synergy_result.synergies[i].product1,
                                         synergy_result.synergies[i].product2} \ {p}


\* ------------------------------------------------------------ claims: cross effects

\* a price change was simulated and returned a result
PriceChangeReturned == PriceChangeCalled /\ "cross_effects" \in DOMAIN sim_result

\* the products the result reports a cross effect of the given size on
EffectsReported ==
    {<<sim_result.cross_effects[i].affected_product,
       sim_result.cross_effects[i].demand_change_pct>> :
        i \in 1..Len(sim_result.cross_effects)}

\* cross_elasticity * price_change_pct * 0.5 for table entry k
HalfCrossEffect(k) ==
    (cross_elasticity[k].elasticity * sim_result.price_change_pct) \div (2 * Scale)

\* C25 as stated: a cross effect of cross_elasticity * price_change_pct * 0.5 is
\* reported for every product paired with the target in the table, whichever
\* position of the key the target has.
C25_CrossEffects ==
    PriceChangeReturned =>
        \A k \in 1..Len(cross_elasticity) :
            /\ cross_elasticity[k].prod1 = sim_call.product
                 => <<cross_elasticity[k].prod2, HalfCrossEffect(k)>> \in EffectsReported
            /\ cross_elasticity[k].prod2 = sim_call.product
                 => <<cross_elasticity[k].prod1, HalfCrossEffect(k)>> \in EffectsReported

\* C25 amended: a cross effect of cross_elasticity * price_change_pct * 0.5 is
\* reported on the second product of exactly those table keys whose first
\* product is the target; a key holding the target in second position adds
\* nothing.
C25_CrossEffectsAmended ==
    PriceChangeReturned =>
        /\ EffectsReported =
              {<<cross_elasticity[k].prod2, HalfCrossEffect(k)>> :
                  k \in {j \in 1..Len(cross_elasticity) :
                            cross_elasticity[j].prod1 = sim_call.product}}
        /\ Len(sim_result.cross_effects) =
              Cardinality({j \in 1..Len(cross_elasticity) :
                              cross_elasticity[j].prod1 = sim_call.product})

C25_Witness ==
    /\ PriceChangeReturned
    /\ sim_call.product = "Bread"
    /\ sim_result.price_change_pct > 0
    /\ Len(sim_result.cross_effects) = 1
    /\ sim_result.cross_effects[1].affected_product = "Eggs"
    /\ sim_result.cross_effects[1].demand_change_pct > 0


\* ------------------------------------------------------------ claims: excess units

\* the product was classified HIGH RISK from the metrics of its history
ClassifiedHighRisk ==
    /\ MetricsReturned
    /\ classification # None
    /\ classification.category = "HIGH RISK"

\* C26: for category HIGH RISK the number interpolated into recommended_action
\* as excess units is current_avg * max(0, days_of_stock - 14) truncated to an
\* integer.
C26_ExcessUnits ==
    ClassifiedHighRisk =>
        classification.recommended_action.number =
            IntTrunc(FMulF(metrics.current_avg,
                           PyMax0(Sub(metrics.days_of_stock, 14 * Scale))))


\* ------------------------------------------------------------ claims: model cache

\* C27: the model cache changes only by a successful fit. A forecast call for
\* product p leaves every other product's entry as it was; it leaves p's entry
\* as it was when p is cached, whatever history is passed; it leaves p without
\* an entry when p is not cached and training fails; and when it does change
\* p's entry, p was not cached, the fit succeeded and the entry is the model
\* fitted to the history passed.
C27_CacheChangesOnlyByFit ==
    [][LET p == fcall'.product_name
           h == fcall'.product_data
       IN  /\ \A q \in Products \ {p} : models'[q] = models[q]
           /\ models[p] # None => models'[p] = models[p]
           /\ (models[p] = None /\ FitRaises(h, fcall'.lib)) => models'[p] = None
           /\ models'[p] # models[p] =>
                 /\ models[p] = None
                 /\ ~FitRaises(h, fcall'.lib)
                 /\ models'[p] = Fit(h)]_vars

\* a call whose training failed has returned, while the other product is cached
C27_Witness ==
    /\ fcall # None
    /\ ~fcall.cached
    /\ FitRaises(fcall.product_data, fcall.lib)
    /\ "error" \in DOMAIN fresult
    /\ models[fcall.product_name] = None
    /\ \E q \in Products \ {fcall.product_name} :
          models[q] # None /\ models[q].history # fcall.product_data


\* ------------------------------------------------------------ claims: high opportunity

\* the metrics were classified HIGH OPPORTUNITY
ClassifiedHighOpportunity ==
    /\ classification # None
    /\ classification.category = "HIGH OPPORTUNITY"

\* C28: whenever the category is HIGH OPPORTUNITY, trend_7d > 5, the trend arrow
\* is the up arrow and the inventory increase interpolated into the recommended
\* action lies between 10 and 50 percent.
C28_HighOpportunityTrendsUp ==
    ClassifiedHighOpportunity =>
        /\ metrics.trend_7d > 5 * Scale
        /\ classification.trend_arrow = "up"
        /\ classification.recommended_action.number \in 10..50

\* HIGH OPPORTUNITY reached without the 30 points of a trend above 15
C28_Witness ==
    /\ ClassifiedHighOpportunity
    /\ metrics.trend_7d = 5 * Scale + 1
    /\ classification.opportunity_score = 60
    /\ classification.recommended_action.number = 10


\* ------------------------------------------------------------ claims: promotion ROI

\* a promotion with a positive discount, demand and duration was simulated
PromotionPaid ==
    /\ PromotionCalled
    /\ sim_call.discount_pct > 0
    /\ sim_call.current_demand > 0
    /\ sim_call.duration_days > 0

C30_NewDemandNonNegative ==
    (sweep # None /\ sweep.product \in DOMAIN price_elasticity
        /\ sweep.current_price > 0 /\ sweep.current_demand >= 0) =>
        \A k \in 1..Len(sweep.points) :
            (sweep.points[k].new_price >= 0
                /\ "new_demand" \in DOMAIN sweep.points[k].result)
              => sweep.points[k].result.new_demand >= 0

====
